---- MODULE Spec2Model ----
(***************************************************************************)
(* Row level security wrappers of src/convex/authRules.ts: WrapReader,     *)
(* WrapWriter, WrapQueryInitializer, WrapQuery and asyncFilter, over a     *)
(* model of the underlying database of one table, "messages".              *)
(*                                                                         *)
(* Spec      is a mutation handler run under withMutationRLS: it calls     *)
(*           get, insert, patch, replace and delete on the WrapWriter.     *)
(* SpecQuery is a query handler run under withQueryRLS: it calls get and   *)
(*           query(...) on the WrapReader and materializes the WrapQuery.  *)
(* SpecPaginate is a query handler that paginates one query to its end,    *)
(*           each call with the continuation cursor of the page before.    *)
(*                                                                         *)
(* Every await of the source is a step boundary; the synchronous code      *)
(* between two awaits is one step.                                         *)
(***************************************************************************)
EXTENDS Integers, Sequences, FiniteSets, TLC

\* Number of document ids of the table.
MaxDocs == 3
\* Number of document ids a mutation handler's run works on.
MaxRows == 2
\* Largest n passed to take(n).
MaxTake == 2
\* Largest numItems passed to paginate.
MaxPage == 2
\* Largest number of return() calls an underlying cursor is given.
MaxReturns == 2

Ids == 1..MaxDocs
RowIds == 1..MaxRows
Authors == {"alice", "bob"}

\* auth.getUserIdentity() returns null, or an identity with a tokenIdentifier.
NoIdentity == "null"
Identities == {NoIdentity, "alice"}
\* ... or rejects (an error of the engine), for the caller AuthFails.
AuthFails == "rejects"

\* JavaScript null (db.get of a missing id) and undefined (the value of an
\* exhausted iterator), as records so that every document-valued slot has one
\* shape.
Null == [id |-> 0, author |-> "null", published |-> FALSE]
Undefined == [id |-> -1, author |-> "undefined", published |-> FALSE]
Docs == [id : Ids, author : Authors, published : BOOLEAN]
IsDoc(d) == d.id \in Ids

\* Values passed to insert / replace (every field) and to patch (editMessage
\* patches published and leaves author alone).
Unset == "unset"
NoValue == [author |-> Unset, published |-> FALSE]
FullValues == [author : Authors, published : BOOLEAN]
PatchValues == [author : {Unset}, published : BOOLEAN]

Bool(b) == IF b THEN "true" ELSE "false"

(***************************************************************************)
(* The rules of the example application.  A rule returns "true", "false"   *)
(* or "throw" (a TypeError: a field of null or undefined is read).         *)
(***************************************************************************)
messages_read(id, message) ==
  IF id = NoIdentity
  THEN IF IsDoc(message) THEN Bool(message.published) ELSE "throw"
  ELSE "true"

messages_write(id, message) ==
  IF id = NoIdentity
  THEN "false"
  ELSE IF IsDoc(message) THEN Bool(message.author = id) ELSE "throw"

messages_insert(id, message) ==
  IF id = NoIdentity
  THEN "false"
  ELSE IF IsDoc(message) THEN Bool(message.author = id) ELSE "throw"

NoRule == "none"
Omitted == "omitted"
RuleNames == {"messages.read", "messages.write"}

\* Calling the rule function stored in a slot: each rule of the table first
\* awaits auth.getUserIdentity(), and rejects when that rejects.
Rule(name, id, message) ==
  IF id = AuthFails THEN "throw"
  ELSE CASE name = "messages.read" -> messages_read(id, message)
         [] name = "messages.write" -> messages_write(id, message)
         [] name = "messages.insert" -> messages_insert(id, message)

(***************************************************************************)
(* The underlying database (the engine the wrappers delegate to).          *)
(***************************************************************************)
db_get(st, id) == st[id]

db_insert(st, id, value) ==
  [st EXCEPT ![id] = [id |-> id, author |-> value.author,
                      published |-> value.published]]

db_patch(st, id, value) ==
  [st EXCEPT ![id] = [id |-> id,
                      author |-> IF value.author = Unset THEN st[id].author
                                 ELSE value.author,
                      published |-> value.published]]

db_replace(st, id, value) ==
  [st EXCEPT ![id] = [id |-> id, author |-> value.author,
                      published |-> value.published]]

db_delete(st, id) == [st EXCEPT ![id] = Null]

\* A query: where it scans, whether a filter expression was added, its order.
NoQuery ==
  [kind |-> "none", src |-> "none", filtered |-> FALSE, ord |-> "asc",
   p |-> "none"]

\* The documents of the table in creation order.
Table(st) == SelectSeq([i \in Ids |-> st[i]], IsDoc)

Reverse(s) == [i \in 1..Len(s) |-> s[Len(s) + 1 - i]]

IsAlice(d) == d.author = "alice"
IsBob(d) == d.author = "bob"
IsPublished(d) == d.published

\* What the engine returns for a query: fullTableScan(), or
\* withIndex("by_author", q => q.eq("author", "alice")), or
\* withSearchIndex("search_author", q => q.search("author", "bob")); then
\* filter(q => q.eq(q.field("published"), true)); then order.
q_collect(st, q) ==
  LET scanned == CASE q.src = "withIndex" -> SelectSeq(Table(st), IsAlice)
                   [] q.src = "withSearchIndex" -> SelectSeq(Table(st), IsBob)
                   [] OTHER -> Table(st)
      kept == IF q.filtered THEN SelectSeq(scanned, IsPublished) ELSE scanned
  IN IF q.ord = "desc" THEN Reverse(kept) ELSE kept

Min(a, b) == IF a <= b THEN a ELSE b

\* paginate({numItems, cursor}): the page after the cursor, the cursor after
\* the page, and whether the query is exhausted.  A cursor is null (0) or one
\* the engine returned.
q_paginate(st, q, numItems, cursor) ==
  LET all == q_collect(st, q)
      from == Min(cursor, Len(all))
      to == Min(from + numItems, Len(all))
  IN [page |-> SubSeq(all, from + 1, to), continueCursor |-> to,
      isDone |-> to >= Len(all)]

\* q.take(n) of the engine: the first n documents.
q_take(st, q, n) == SubSeq(q_collect(st, q), 1, Min(n, Len(q_collect(st, q))))

\* q[Symbol.asyncIterator](): a cursor over the query's documents.
NoIterator ==
  [open |-> FALSE, items |-> <<>>, pos |-> 0, done |-> FALSE, returns |-> 0]
q_asyncIterator(st, q) ==
  [NoIterator EXCEPT !.open = TRUE, !.items = q_collect(st, q)]

\* iterator.next(): {value, done}.
NoResult == [value |-> Undefined, done |-> FALSE]
iterator_next(it) ==
  IF it.pos < Len(it.items)
  THEN [value |-> it.items[it.pos + 1], done |-> FALSE]
  ELSE [value |-> Undefined, done |-> TRUE]

\* The cursor after iterator.next() and after iterator.return().
iterator_advance(it) ==
  IF it.pos < Len(it.items) THEN [it EXCEPT !.pos = @ + 1]
  ELSE [it EXCEPT !.done = TRUE]

iterator_return(it) == [it EXCEPT !.open = FALSE, !.returns = @ + 1]

VARIABLES
  ctx,         \* the ambient context the wrapped function is called with
  identity,    \* ctx.auth: the caller
  readRule,    \* readAccessRules["messages"], or NoRule
  writeRule,   \* writeAccessRules["messages"], NoRule, or Omitted (no map)
  insertRule,  \* the insert slot of the table, or NoRule
  store,       \* the table: id -> document or Null
  nextId,      \* the id the next db.insert creates
  pc,          \* where the handler stands
  op,          \* the call in progress (or the last one, when pc = "idle")
  doc,         \* the local doc of WrapReader.get / checkAuth
  log,         \* calls the wrappers made to the engine and to rules, this call
  out,         \* what the last call returned or threw
  pre,         \* the table when the call started
  wq,          \* the WrapQueryInitializer / WrapQuery the handler holds
  arr,         \* asyncFilter: the documents being filtered
  results,     \* asyncFilter: the outcome of each predicate, or "pending"
  iterator,    \* WrapQuery.iterator: the underlying cursor
  cur,         \* next(): the {value, done} last pulled or yielded
  acc,         \* take: results; unique: uniqueResult
  inserted,    \* the document the handler's last db.insert created, or Null
  second       \* a second iteration begun on the WrapQuery during the first

vars == <<ctx, identity, readRule, writeRule, insertRule, store, nextId, pc,
          op, doc, log, out, pre, wq, arr, results, iterator, cur, acc,
          inserted, second>>

\* The state of building and running queries.
qvars == <<wq, arr, results, iterator, cur, acc>>

\* What no step of a read changes.
config == <<ctx, identity, readRule, writeRule, insertRule, inserted, second>>

\* No second iteration; one has what it yielded, the underlying cursor the
\* first iteration had when it began, and whether it was told the end.
NoSecond == [started |-> FALSE, acc |-> <<>>, first |-> NoIterator,
             done |-> FALSE]

NoOp == [name |-> "none", id |-> 0, value |-> NoValue, n |-> 0, cursor |-> 0]

NoOut == [kind |-> "none", value |-> Undefined, list |-> <<>>, error |-> "",
          isDone |-> FALSE, continueCursor |-> 0, id |-> 0]

Returned(kind, value) == [NoOut EXCEPT !.kind = kind, !.value = value]
Thrown(error) == [NoOut EXCEPT !.kind = "error", !.error = error]

\* A call to the engine: what was called, on which id, with or returning
\* which document.
Event(ev, id, d, res) ==
  [ev |-> ev, id |-> id, doc |-> d, res |-> res, ctx |-> "none"]

\* A call to a rule function: rule(c, d) returned (or threw) res.
RuleCall(ev, c, d, res) == [Event(ev, d.id, d, res) EXCEPT !.ctx = c.db]

\* ctx.db of the ambient context: the engine's handle, or missing; and the
\* handle the handler is given, `{ ...ctx, db: wrappedDb }`.
rawDb == "db"
noDb == "undefined"
wrappedDb == "wrappedDb"
Contexts == [db : {rawDb, noDb}]

\* (the message of the source quotes db in backquotes)
ConfigurationError == "ctx must contain db for row level security"
NotFoundOrForbidden == "no read access or doc does not exist"
WriteForbidden == "write access not allowed"
Forbidden == "insert access not allowed"
RuleError == "TypeError"
AuthError == "getUserIdentity rejected"

(***************************************************************************)
(* withQueryRLS and withMutationRLS: the wrapped function is called with   *)
(* ctx; it throws, or calls the handler f with the wrapped database.       *)
(***************************************************************************)
\* The error a rule raises for this caller when it returns "throw": the
\* engine's, when getUserIdentity rejects, else the TypeError of reading a
\* field of null or undefined.
Raised == IF identity = AuthFails THEN AuthError ELSE RuleError

\* Mutant of withMutationRLS: `if (!db) throw` is missing.
withMutationRLS_guard_unchecked(c) == TRUE

\* `const db = ctx.db; if (!db) { throw ... }`
withQueryRLS_guard(c) == c.db # noDb
withMutationRLS_guard(c) == c.db # noDb

withRLS(guard) ==
  /\ pc = "call"
  /\ IF guard
     THEN /\ pc' = "idle"
          /\ UNCHANGED out
     ELSE /\ pc' = "failed"
          /\ out' = Thrown(ConfigurationError)
  /\ UNCHANGED <<config, store, nextId, op, doc, log, pre, qvars>>

withQueryRLS == withRLS(withQueryRLS_guard(ctx))

withMutationRLS == withRLS(withMutationRLS_guard(ctx))

(***************************************************************************)
(* WrapReader.predicate and WrapWriter.predicate: the outcome, and the     *)
(* rule invocations they make.                                             *)
(***************************************************************************)
\* Mutant of WrapReader.predicate: the rule map is never consulted.
WrapReader_predicate_allowAll(d) == "true"

WrapReader_predicate(d) ==
  IF readRule = NoRule THEN "true" ELSE Rule(readRule, identity, d)

\* Mutant of the WrapReader constructor call: it is given the context the
\* handler gets.
WrapReader_ctx_handler == [db |-> wrappedDb]

\* this.ctx of WrapReader: the ctx withQueryRLS / WrapWriter constructed it
\* with.
WrapReader_ctx == ctx

WrapReader_predicate_log(d) ==
  IF readRule = NoRule THEN <<>>
  ELSE <<RuleCall("read.rule", WrapReader_ctx, d, Rule(readRule, identity, d))>>

\* withMutationRLS passes writeAccessRules || {}.
writeAccessRules == IF writeRule = Omitted THEN NoRule ELSE writeRule

\* Mutant of WrapWriter.predicate: it looks the rule up in readAccessRules.
WrapWriter_predicate_readRules(d) == WrapReader_predicate(d)

WrapWriter_predicate(d) ==
  IF writeAccessRules = NoRule THEN "true"
  ELSE Rule(writeAccessRules, identity, d)

\* this.ctx of WrapWriter.
WrapWriter_ctx == ctx

WrapWriter_predicate_log(d) ==
  IF writeAccessRules = NoRule THEN <<>>
  ELSE <<RuleCall("write.rule", WrapWriter_ctx, d,
                  Rule(writeAccessRules, identity, d))>>


(***************************************************************************)
(* WrapReader.get, as far as its first await allows, and what its caller   *)
(* does with the value it returns.                                         *)
(***************************************************************************)
\* Mutant of checkAuth: the `doc === null` test is missing.
checkAuth_afterGet_unchecked(r) == [pc |-> "write.predicate", out |-> NoOut]

\* checkAuth, after `const doc = await this.get(id)`.
checkAuth_afterGet(r) ==
  IF r = Null
  THEN [pc |-> "idle", out |-> Thrown(NotFoundOrForbidden)]
  ELSE [pc |-> "write.predicate", out |-> NoOut]

\* The caller of WrapReader.get resumes with r: the handler itself (get), or
\* checkAuth (patch, replace, delete).
AfterGet(name, r) ==
  IF name = "get"
  THEN [pc |-> "idle", out |-> Returned("value", r)]
  ELSE checkAuth_afterGet(r)

\* Mutant of WrapReader.get: `doc &&` is missing, the predicate is called on
\* whatever db.get returned.
WrapReader_get_guard_always(d) == TRUE

\* `doc && ...` of WrapReader.get: the predicate is called for a document only.
WrapReader_get_guard(d) == d # Null

\* The call: db.get(id), then either `return null` or the call of predicate.
WrapReader_get(name, id, value) ==
  /\ pc = "idle"
  /\ op' = [NoOp EXCEPT !.name = name, !.id = id, !.value = value]
  /\ pre' = store
  /\ LET d == db_get(store, id)
         next == IF WrapReader_get_guard(d)
                 THEN [pc |-> "read.predicate", out |-> NoOut]
                 ELSE AfterGet(name, Null)
     IN /\ doc' = d
        /\ log' = <<Event("db.get", id, d, "")>>
        /\ pc' = next.pc
        /\ out' = next.out
  /\ UNCHANGED <<config, store, nextId, wq>>
  /\ arr' = <<>> /\ results' = <<>> /\ iterator' = NoIterator
  /\ cur' = NoResult /\ acc' = <<>>

\* Mutant of WrapReader.get: a rule that fails is taken as a rule that denies
\* (try { ... } catch { return null }).
WrapReader_get_predicate_denyOnError ==
  /\ pc = "read.predicate"
  /\ LET r == WrapReader_predicate(doc)
         next == IF r = "true" THEN AfterGet(op.name, doc)
                 ELSE AfterGet(op.name, Null)
     IN /\ log' = log \o WrapReader_predicate_log(doc)
        /\ pc' = next.pc
        /\ out' = next.out
        /\ doc' = IF r = "true" THEN doc ELSE Null
  /\ UNCHANGED <<config, store, nextId, op, pre, qvars>>

\* `await this.predicate(id.tableName, doc)` resolves in WrapReader.get.
WrapReader_get_predicate ==
  /\ pc = "read.predicate"
  /\ LET r == WrapReader_predicate(doc)
         next == CASE r = "throw" -> [pc |-> "idle", out |-> Thrown(Raised)]
                   [] r = "true" -> AfterGet(op.name, doc)
                   [] r = "false" -> AfterGet(op.name, Null)
     IN /\ log' = log \o WrapReader_predicate_log(doc)
        /\ pc' = next.pc
        /\ out' = next.out
        /\ doc' = IF r = "true" THEN doc ELSE Null
  /\ UNCHANGED <<config, store, nextId, op, pre, qvars>>

(***************************************************************************)
(* WrapWriter                                                              *)
(***************************************************************************)
WrapWriter_get(id) == WrapReader_get("get", id, NoValue)

WrapWriter_patch(id, value) == WrapReader_get("patch", id, value)

WrapWriter_replace(id, value) == WrapReader_get("replace", id, value)

WrapWriter_delete(id) == WrapReader_get("delete", id, NoValue)

\* The value patch / replace would store.
Proposed ==
  CASE op.name = "patch" -> db_patch(store, op.id, op.value)[op.id]
    [] op.name = "replace" -> db_replace(store, op.id, op.value)[op.id]
    [] OTHER -> doc

\* Mutant of checkAuth: the write predicate is given the proposed value.
checkAuth_predicate_proposed ==
  /\ pc = "write.predicate"
  /\ LET r == WrapWriter_predicate(Proposed)
         next == CASE r = "throw" -> [pc |-> "idle", out |-> Thrown(Raised)]
                   [] r = "true" -> [pc |-> "db", out |-> NoOut]
                   [] r = "false" -> [pc |-> "idle", out |-> Thrown(WriteForbidden)]
     IN /\ log' = log \o <<Event("write.predicate", op.id, Proposed, r)>>
                      \o WrapWriter_predicate_log(Proposed)
        /\ pc' = next.pc
        /\ out' = next.out
  /\ UNCHANGED <<config, store, nextId, op, doc, pre, qvars>>

\* `await this.predicate(id.tableName, doc)` resolves in checkAuth; when it
\* allows, patch / replace / delete go on to call the engine.
checkAuth_predicate ==
  /\ pc = "write.predicate"
  /\ LET r == WrapWriter_predicate(doc)
         next == CASE r = "throw" -> [pc |-> "idle", out |-> Thrown(Raised)]
                   [] r = "true" -> [pc |-> "db", out |-> NoOut]
                   [] r = "false" -> [pc |-> "idle", out |-> Thrown(WriteForbidden)]
     IN /\ log' = log \o <<Event("write.predicate", doc.id, doc, r)>>
                      \o WrapWriter_predicate_log(doc)
        /\ pc' = next.pc
        /\ out' = next.out
  /\ UNCHANGED <<config, store, nextId, op, doc, pre, qvars>>

\* Mutant of patch: the write rule is evaluated again, on the document as it
\* is now, in the step that delegates.
patch_db_rechecked ==
  /\ pc = "db"
  /\ op.name = "patch"
  /\ IF WrapWriter_predicate(store[op.id]) = "true"
     THEN /\ store' = db_patch(store, op.id, op.value)
          /\ log' = Append(log, Event("db.patch", op.id, store'[op.id], ""))
          /\ out' = Returned("void", Undefined)
     ELSE /\ out' = Thrown(WriteForbidden)
          /\ UNCHANGED <<store, log>>
  /\ pc' = "idle"
  /\ UNCHANGED <<config, nextId, op, doc, pre, qvars>>

\* `await this.db.patch(id, value)`, after checkAuth returned.
patch_db ==
  /\ pc = "db"
  /\ op.name = "patch"
  /\ store' = db_patch(store, op.id, op.value)
  /\ log' = Append(log, Event("db.patch", op.id, store'[op.id], ""))
  /\ pc' = "idle"
  /\ out' = Returned("void", Undefined)
  /\ UNCHANGED <<config, nextId, op, doc, pre, qvars>>

replace_db ==
  /\ pc = "db"
  /\ op.name = "replace"
  /\ store' = db_replace(store, op.id, op.value)
  /\ log' = Append(log, Event("db.replace", op.id, store'[op.id], ""))
  /\ pc' = "idle"
  /\ out' = Returned("void", Undefined)
  /\ UNCHANGED <<config, nextId, op, doc, pre, qvars>>

delete_db ==
  /\ pc = "db"
  /\ op.name = "delete"
  /\ store' = db_delete(store, op.id)
  /\ log' = Append(log, Event("db.delete", op.id, Null, ""))
  /\ pc' = "idle"
  /\ out' = Returned("void", Undefined)
  /\ UNCHANGED <<config, nextId, op, doc, pre, qvars>>

\* `return await this.db.insert(table, value)`.
insert_db(value, l) ==
  /\ store' = db_insert(store, nextId, value)
  /\ inserted' = store'[nextId]
  /\ nextId' = nextId + 1
  /\ log' = Append(l, Event("db.insert", nextId, store'[nextId], ""))
  /\ pc' = "idle"
  /\ out' = [Returned("id", Undefined) EXCEPT !.id = nextId]

\* Mutant of WrapWriter.insert: the write rule gates the insert.
WrapWriter_insert_checked(value) ==
  /\ pc = "idle"
  /\ nextId \in RowIds
  /\ op' = [NoOp EXCEPT !.name = "insert", !.value = value]
  /\ pre' = store
  /\ doc' = Undefined
  /\ IF WrapWriter_predicate(db_insert(store, nextId, value)[nextId]) = "true"
     THEN insert_db(value, <<>>)
     ELSE /\ pc' = "idle"
          /\ log' = <<>>
          /\ out' = Thrown(WriteForbidden)
          /\ UNCHANGED <<store, nextId, inserted>>
  /\ UNCHANGED <<ctx, identity, readRule, writeRule, insertRule, qvars,
                 second>>

\* insert(table, value) on a table whose insert slot is empty delegates at
\* once; with an insert rule, the rule is awaited first.
WrapWriter_insert(value) ==
  /\ pc = "idle"
  /\ nextId \in RowIds
  /\ op' = [NoOp EXCEPT !.name = "insert", !.value = value]
  /\ pre' = store
  /\ doc' = Undefined
  /\ IF insertRule = NoRule
     THEN insert_db(value, <<>>)
     ELSE /\ pc' = "insert.rule"
          /\ log' = <<>>
          /\ out' = NoOut
          /\ UNCHANGED <<store, nextId, inserted>>
  /\ UNCHANGED <<ctx, identity, readRule, writeRule, insertRule, qvars,
                 second>>

\* Mutant of the insert rule check: the rule is called and its answer dropped.
insert_rule_ignored ==
  /\ pc = "insert.rule"
  /\ LET proposed == db_insert(store, nextId, op.value)[nextId]
         r == Rule(insertRule, identity, proposed)
     IN insert_db(op.value,
                  <<RuleCall("insert.rule", WrapWriter_ctx, proposed, r)>>)
  /\ UNCHANGED <<ctx, identity, readRule, writeRule, insertRule, op, doc, pre,
                 qvars, second>>

\* The insert rule resolves: insert throws, or delegates to the engine.
insert_rule ==
  /\ pc = "insert.rule"
  /\ LET proposed == db_insert(store, nextId, op.value)[nextId]
         r == Rule(insertRule, identity, proposed)
         l == <<RuleCall("insert.rule", WrapWriter_ctx, proposed, r)>>
     IN CASE r = "true" -> insert_db(op.value, l)
          [] r = "false" -> /\ pc' = "idle"
                            /\ out' = Thrown(Forbidden)
                            /\ log' = l
                            /\ UNCHANGED <<store, nextId, inserted>>
          [] r = "throw" -> /\ pc' = "idle"
                            /\ out' = Thrown(Raised)
                            /\ log' = l
                            /\ UNCHANGED <<store, nextId, inserted>>
  /\ UNCHANGED <<ctx, identity, readRule, writeRule, insertRule, op, doc, pre,
                 qvars, second>>

(***************************************************************************)
(* WrapReader.query, WrapQueryInitializer and the shape-building methods  *)
(* of WrapQuery.                                                           *)
(***************************************************************************)
\* A call the handler makes between two operations: locals start afresh.
Begin(name) ==
  /\ pc = "idle"
  /\ op' = [NoOp EXCEPT !.name = name]
  /\ pre' = store
  /\ doc' = Undefined
  /\ UNCHANGED <<config, store, nextId>>

Build(name, q) ==
  /\ Begin(name)
  /\ wq' = q
  /\ log' = <<>>
  /\ out' = Returned("query", Undefined)
  /\ pc' = "idle"
  /\ arr' = <<>> /\ results' = <<>> /\ iterator' = NoIterator
  /\ cur' = NoResult /\ acc' = <<>>

\* query(tableName): new WrapQueryInitializer(this.db.query(tableName),
\* d => this.predicate(tableName, d)).
WrapReader_query ==
  Build("query", [NoQuery EXCEPT !.kind = "initializer", !.p = "predicate"])

\* new WrapQuery(this.q.fullTableScan() / withIndex / withSearchIndex, this.p)
Scan(src) == [wq EXCEPT !.kind = "query", !.src = src]

fullTableScan ==
  /\ wq.kind = "initializer"
  /\ Build("fullTableScan", Scan("fullTableScan"))

withIndex ==
  /\ wq.kind = "initializer"
  /\ Build("withIndex", Scan("withIndex"))

withSearchIndex ==
  /\ wq.kind = "initializer"
  /\ Build("withSearchIndex", Scan("withSearchIndex"))

\* The WrapQuery a method of the handler's object runs on: the initializer
\* runs it on this.fullTableScan().
Target == IF wq.kind = "initializer" THEN Scan("fullTableScan") ELSE wq

\* this.p of the WrapQuery the handler's method runs on, and the rule
\* invocations it makes.
WrapQuery_p(d) ==
  IF Target.p = "predicate" THEN WrapReader_predicate(d) ELSE "true"

WrapQuery_p_log(d) ==
  IF Target.p = "predicate" THEN WrapReader_predicate_log(d) ELSE <<>>

\* Mutant of filter: the new WrapQuery is not given this.p.
WrapQuery_filter_unbound ==
  /\ wq.kind # "none"
  /\ ~wq.filtered
  /\ Build("filter", [Target EXCEPT !.filtered = TRUE, !.p = "none"])

\* filter(predicate): new WrapQuery(this.q.filter(predicate), this.p).
WrapQuery_filter ==
  /\ wq.kind # "none"
  /\ ~wq.filtered
  /\ Build("filter", [Target EXCEPT !.filtered = TRUE])

\* order(order): new WrapQuery(this.q.order(order), this.p); the engine
\* orders a query once, and never a search.
WrapQuery_order(o) ==
  /\ wq.kind # "none"
  /\ wq.src # "withSearchIndex"
  /\ wq.ord = "asc"
  /\ Build("order", [Target EXCEPT !.ord = o])

(***************************************************************************)
(* asyncFilter, collect and paginate.                                      *)
(***************************************************************************)
\* Mutant of asyncFilter: results.filter(Boolean).map((_, i) => arr[i]).
asyncFilter_filter_compact(a, r) ==
  SubSeq(a, 1, Cardinality({i \in 1..Len(a) : r[i] = "true"}))

\* arr.filter((_v, index) => results[index])
asyncFilter_filter(a, r) ==
  LET kept == SelectSeq([i \in 1..Len(a) |-> i], LAMBDA i : r[i] = "true")
  IN [k \in 1..Len(kept) |-> a[kept[k]]]

\* The rule invocations of arr.map(predicate), in index order.
RECURSIVE MapLog(_)
MapLog(a) ==
  IF a = <<>> THEN <<>>
  ELSE WrapQuery_p_log(Head(a)) \o MapLog(Tail(a))

\* Mutant of paginate: a page left empty by the filter ends the pagination.
asyncFilter_resolved_doneWhenEmpty(pending, page) ==
  [pending EXCEPT !.kind = IF pending.kind = "paging" THEN "page" ELSE "list",
                  !.list = page,
                  !.isDone = pending.isDone \/ page = <<>>]

\* Mutant of paginate: the continuation cursor is moved back by the number
\* of documents the filter dropped.
asyncFilter_resolved_cursorAdjusted(pending, page) ==
  [pending EXCEPT !.kind = IF pending.kind = "paging" THEN "page" ELSE "list",
                  !.list = page,
                  !.continueCursor = @ - (Len(arr) - Len(page))]

\* asyncFilter resolved with `page`: collect returns it, paginate returns the
\* engine's result with its page replaced.
asyncFilter_resolved(pending, page) ==
  [pending EXCEPT !.kind = IF pending.kind = "paging" THEN "page" ELSE "list",
                  !.list = page]

\* asyncFilter(a, this.p) is called: every predicate is started, and
\* Promise.all of no promise resolves at once.
asyncFilter(a, l, pending) ==
  /\ arr' = a
  /\ results' = [i \in 1..Len(a) |-> "pending"]
  /\ log' = l \o MapLog(a)
  /\ IF a = <<>>
     THEN /\ pc' = "idle"
          /\ out' = asyncFilter_resolved(pending, <<>>)
     ELSE /\ pc' = "asyncFilter"
          /\ out' = pending
  /\ iterator' = NoIterator /\ cur' = NoResult
  /\ UNCHANGED wq

collect ==
  /\ Begin("collect")
  /\ wq.kind # "none"
  /\ acc' = <<>>
  /\ asyncFilter(q_collect(store, Target),
                 <<Event("q.collect", 0, Undefined, "")>>,
                 [NoOut EXCEPT !.kind = "collecting"])

\* paginate({numItems, cursor}), with a null cursor (0) or the continueCursor
\* of the page the handler was just given; acc is what the handler has of the
\* earlier pages of this pagination.
paginate(numItems, cursor) ==
  /\ pc = "idle"
  /\ acc' = IF cursor = 0 THEN <<>> ELSE acc \o out.list
  /\ op' = [NoOp EXCEPT !.name = "paginate", !.n = numItems, !.cursor = cursor]
  /\ pre' = store
  /\ doc' = Undefined
  /\ UNCHANGED <<config, store, nextId>>
  /\ wq.kind # "none"
  /\ \/ cursor = 0
     \/ /\ op.name = "paginate"
        /\ out.kind = "page"
        /\ ~out.isDone
        /\ cursor = out.continueCursor
  /\ LET result == q_paginate(store, Target, numItems, cursor)
     IN asyncFilter(result.page,
                    <<Event("q.paginate", 0, Undefined, "")>>,
                    [NoOut EXCEPT !.kind = "paging",
                                  !.isDone = result.isDone,
                                  !.continueCursor = result.continueCursor])

\* One predicate of Promise.all(arr.map(predicate)) settles; a rejection
\* rejects asyncFilter, the last fulfilment resolves it.
asyncFilter_settle(i) ==
  /\ pc = "asyncFilter"
  /\ i \in 1..Len(arr)
  /\ results[i] = "pending"
  /\ LET r == WrapQuery_p(arr[i])
         rs == [results EXCEPT ![i] = r]
     IN /\ results' = rs
        /\ IF r = "throw"
           THEN /\ pc' = "idle"
                /\ out' = Thrown(Raised)
           ELSE IF \E j \in 1..Len(arr) : rs[j] = "pending"
           THEN UNCHANGED <<pc, out>>
           ELSE /\ pc' = "idle"
                /\ out' = asyncFilter_resolved(out, asyncFilter_filter(arr, rs))
  /\ UNCHANGED <<config, store, nextId, op, doc, log, pre, wq, arr, iterator,
                 cur, acc>>

(***************************************************************************)
(* Iteration: [Symbol.asyncIterator], next, return, and the for-await      *)
(* loops of take, first and unique.                                        *)
(***************************************************************************)
\* [Symbol.asyncIterator](): this.iterator = this.q[Symbol.asyncIterator]();
\* a for-await loop then calls next().
forAwait ==
  /\ wq.kind # "none"
  /\ iterator' = q_asyncIterator(store, Target)
  /\ log' = <<Event("q.asyncIterator", 0, Undefined, "")>>
  /\ out' = NoOut
  /\ pc' = "next.pull"
  /\ arr' = <<>> /\ results' = <<>> /\ cur' = NoResult /\ acc' = <<>>
  /\ UNCHANGED wq

take(n) ==
  /\ pc = "idle"
  /\ op' = [NoOp EXCEPT !.name = "take", !.n = n]
  /\ pre' = store
  /\ doc' = Undefined
  /\ UNCHANGED <<config, store, nextId>>
  /\ forAwait

first ==
  /\ Begin("first")
  /\ forAwait

unique ==
  /\ Begin("unique")
  /\ forAwait

\* The handler iterates by hand: it takes the iterator, ...
WrapQuery_asyncIterator ==
  /\ Begin("asyncIterator")
  /\ wq.kind # "none"
  /\ iterator' = q_asyncIterator(store, Target)
  /\ log' = <<Event("q.asyncIterator", 0, Undefined, "")>>
  /\ out' = Returned("iterator", Undefined)
  /\ pc' = "iterating"
  /\ arr' = <<>> /\ results' = <<>> /\ cur' = NoResult /\ acc' = <<>>
  /\ UNCHANGED wq

\* ... calls next() ...
WrapQuery_next ==
  /\ pc = "iterating"
  /\ op' = [NoOp EXCEPT !.name = "next"]
  /\ log' = <<>>
  /\ out' = NoOut
  /\ pc' = "next.pull"
  /\ UNCHANGED <<config, store, nextId, doc, pre, wq, arr, results, iterator,
                 cur, acc>>

\* Mutant of return(): a cursor that was closed is not closed again, the
\* call throws.
WrapQuery_return_once ==
  /\ pc \in {"iterating", "idle"}
  /\ iterator # NoIterator
  /\ iterator.returns < MaxReturns
  /\ op' = [NoOp EXCEPT !.name = "return"]
  /\ IF iterator.open
     THEN /\ iterator' = iterator_return(iterator)
          /\ log' = <<Event("iterator.return", 0, Undefined, "")>>
          /\ out' = Returned("void", Undefined)
     ELSE /\ iterator' = iterator
          /\ log' = <<>>
          /\ out' = Thrown("closed")
  /\ pc' = "idle"
  /\ UNCHANGED <<config, store, nextId, doc, pre, wq, arr, results, cur, acc>>

\* ... and return(): at any time once the WrapQuery holds an iterator, before
\* the first next(), between two, after the end, after a take / first /
\* unique on the same WrapQuery, and again after a return().
WrapQuery_return ==
  /\ pc \in {"iterating", "idle"}
  /\ iterator # NoIterator
  /\ iterator.returns < MaxReturns
  /\ op' = [NoOp EXCEPT !.name = "return"]
  /\ iterator' = iterator_return(iterator)
  /\ log' = <<Event("iterator.return", 0, Undefined, "")>>
  /\ out' = Returned("void", Undefined)
  /\ pc' = "idle"
  /\ UNCHANGED <<config, store, nextId, doc, pre, wq, arr, results, cur, acc>>

\* next(): `const { value, done } = await this.iterator!.next()` resolves, and
\* this.p(value) is called.
next_pull ==
  /\ pc = "next.pull"
  /\ cur' = iterator_next(iterator)
  /\ iterator' = iterator_advance(iterator)
  /\ log' = Append(log, Event("iterator.next", 0, cur'.value, Bool(cur'.done)))
  /\ pc' = "next.predicate"
  /\ UNCHANGED <<config, store, nextId, op, doc, out, pre, wq, arr, results,
                 acc>>

\* next() as it would be if a denied document ended the stream, so that what
\* follows a denied document never reaches the caller.
next_predicate_stopAtDenied ==
  /\ pc = "next.predicate"
  /\ LET r == WrapQuery_p(cur.value)
     IN /\ log' = log \o WrapQuery_p_log(cur.value)
        /\ CASE r = "throw" -> /\ pc' = "idle"
                               /\ out' = Thrown(Raised)
                               /\ UNCHANGED cur
             [] r = "true" -> /\ pc' = "loop"
                              /\ UNCHANGED <<out, cur>>
             [] r = "false" -> /\ pc' = "loop"
                               /\ cur' = [value |-> Null, done |-> TRUE]
                               /\ UNCHANGED out
  /\ UNCHANGED <<config, store, nextId, op, doc, pre, wq, arr, results,
                 iterator, acc>>

\* next(): `await this.p(value)` resolves: the result is returned, or the end
\* is reported, or the loop pulls again.
next_predicate ==
  /\ pc = "next.predicate"
  /\ LET r == WrapQuery_p(cur.value)
     IN /\ log' = log \o WrapQuery_p_log(cur.value)
        /\ CASE r = "throw" -> /\ pc' = "idle"
                               /\ out' = Thrown(Raised)
                               /\ UNCHANGED cur
             [] r = "true" -> /\ pc' = "loop"
                              /\ UNCHANGED <<out, cur>>
             [] r = "false" -> IF cur.done
                               THEN /\ pc' = "loop"
                                    /\ cur' = [value |-> Null, done |-> TRUE]
                                    /\ UNCHANGED out
                               ELSE /\ pc' = "next.pull"
                                    /\ UNCHANGED <<out, cur>>
  /\ UNCHANGED <<config, store, nextId, op, doc, pre, wq, arr, results,
                 iterator, acc>>

\* The parts of the loop actions that no loop changes.
LoopFrame == UNCHANGED <<config, store, nextId, op, doc, pre, wq, arr, results,
                         cur>>

\* take(n): the loop ends, or its body runs: push, and break at n results
\* (the break calls return()).
take_loop ==
  /\ pc = "loop"
  /\ op.name = "take"
  /\ IF cur.done
     THEN /\ pc' = "idle"
          /\ out' = [NoOut EXCEPT !.kind = "list", !.list = acc]
          /\ UNCHANGED <<acc, iterator, log>>
     ELSE LET rs == Append(acc, cur.value)
          IN /\ acc' = rs
             /\ IF Len(rs) >= op.n
                THEN /\ iterator' = iterator_return(iterator)
                     /\ log' = Append(log, Event("iterator.return", 0,
                                                 Undefined, ""))
                     /\ pc' = "idle"
                     /\ out' = [NoOut EXCEPT !.kind = "list", !.list = rs]
                ELSE /\ pc' = "next.pull"
                     /\ UNCHANGED <<out, iterator, log>>
  /\ LoopFrame

\* Mutant of first(): `(await this.next()).value ?? null` on the iterator, with
\* no for-await loop to close it.
first_loop_unclosed ==
  /\ pc = "loop"
  /\ op.name = "first"
  /\ pc' = "idle"
  /\ out' = Returned("value", IF cur.done THEN Null ELSE cur.value)
  /\ UNCHANGED <<acc, iterator, log>>
  /\ LoopFrame

\* first(): `return null` after the loop, or `return result` in its body
\* (which calls return()).
first_loop ==
  /\ pc = "loop"
  /\ op.name = "first"
  /\ pc' = "idle"
  /\ IF cur.done
     THEN /\ out' = Returned("value", Null)
          /\ UNCHANGED <<iterator, log>>
     ELSE /\ iterator' = iterator_return(iterator)
          /\ log' = Append(log, Event("iterator.return", 0, Undefined, ""))
          /\ out' = Returned("value", cur.value)
  /\ UNCHANGED acc
  /\ LoopFrame

NotUnique == "not unique"

\* unique(): `return uniqueResult` after the loop; its body keeps the first
\* result and throws at the second (the throw calls return()).
unique_loop ==
  /\ pc = "loop"
  /\ op.name = "unique"
  /\ IF cur.done
     THEN /\ pc' = "idle"
          /\ out' = Returned("value", IF acc = <<>> THEN Null ELSE acc[1])
          /\ UNCHANGED <<acc, iterator, log>>
     ELSE IF acc = <<>>
     THEN /\ acc' = <<cur.value>>
          /\ pc' = "next.pull"
          /\ UNCHANGED <<out, iterator, log>>
     ELSE /\ iterator' = iterator_return(iterator)
          /\ log' = Append(log, Event("iterator.return", 0, Undefined, ""))
          /\ pc' = "idle"
          /\ out' = Thrown(NotUnique)
          /\ UNCHANGED acc
  /\ LoopFrame

\* The handler's own next() returned: it keeps what it was given.
next_loop ==
  /\ pc = "loop"
  /\ op.name = "next"
  /\ out' = [NoOut EXCEPT !.kind = "result", !.value = cur.value,
                          !.isDone = cur.done]
  /\ acc' = IF cur.done THEN acc ELSE Append(acc, cur.value)
  /\ pc' = IF cur.done THEN "idle" ELSE "iterating"
  /\ UNCHANGED <<iterator, log>>
  /\ LoopFrame

(***************************************************************************)
(* Two iterations on one WrapQuery object: [Symbol.asyncIterator]()        *)
(* returns `this`, so both consumers call next() on the same object.       *)
(***************************************************************************)
\* The handler begins a second iteration on the WrapQuery it is iterating:
\* this.iterator = this.q[Symbol.asyncIterator]().
WrapQuery_asyncIterator_again ==
  /\ pc = "iterating"
  /\ ~second.started
  /\ second' = [NoSecond EXCEPT !.started = TRUE, !.first = iterator]
  /\ iterator' = q_asyncIterator(store, Target)
  /\ op' = [NoOp EXCEPT !.name = "asyncIterator.second"]
  /\ log' = <<Event("q.asyncIterator", 0, Undefined, "")>>
  /\ out' = Returned("iterator", Undefined)
  /\ UNCHANGED <<ctx, identity, readRule, writeRule, insertRule, inserted,
                 store, nextId, pc, doc, pre, wq, arr, results, cur, acc>>

\* The second consumer calls next() ...
WrapQuery_next_second ==
  /\ pc = "iterating"
  /\ second.started
  /\ ~second.done
  /\ op' = [NoOp EXCEPT !.name = "next.second"]
  /\ log' = <<>>
  /\ out' = NoOut
  /\ pc' = "next.pull"
  /\ UNCHANGED <<config, store, nextId, doc, pre, wq, arr, results, iterator,
                 cur, acc>>

\* ... and keeps what it was given.
next_loop_second ==
  /\ pc = "loop"
  /\ op.name = "next.second"
  /\ out' = [NoOut EXCEPT !.kind = "result", !.value = cur.value,
                          !.isDone = cur.done]
  /\ second' = IF cur.done THEN [second EXCEPT !.done = TRUE]
               ELSE [second EXCEPT !.acc = Append(@, cur.value)]
  /\ pc' = "iterating"
  /\ UNCHANGED <<ctx, identity, readRule, writeRule, insertRule, inserted,
                 store, nextId, op, doc, log, pre, wq, arr, results, iterator,
                 cur, acc>>

(***************************************************************************)
(* A mutation handler under withMutationRLS.                               *)
(***************************************************************************)
\* Tables a request can find: ids 1..k hold documents, later ids are unused.
InitStores ==
  UNION {{st \in [Ids -> Docs \cup {Null}] :
            \A i \in Ids : IF i <= k THEN st[i] # Null /\ st[i].id = i
                                     ELSE st[i] = Null} : k \in 0..MaxRows}

Used(st) == Cardinality({i \in Ids : st[i] # Null})

Init ==
  /\ ctx \in Contexts
  /\ identity \in Identities
  /\ readRule \in {NoRule} \cup RuleNames
  /\ writeRule \in {Omitted, NoRule, "messages.write"}
  /\ insertRule \in {NoRule, "messages.insert"}
  /\ store \in InitStores
  /\ nextId = Used(store) + 1
  /\ pc = "call"
  /\ op = NoOp
  /\ doc = Undefined
  /\ log = <<>>
  /\ out = NoOut
  /\ pre = store
  /\ wq = NoQuery
  /\ arr = <<>>
  /\ results = <<>>
  /\ iterator = NoIterator
  /\ cur = NoResult
  /\ acc = <<>>
  /\ inserted = Null
  /\ second = NoSecond

Next ==
  \/ withMutationRLS
  \/ \E id \in RowIds : WrapWriter_get(id)
  \/ \E value \in FullValues : WrapWriter_insert(value)
  \/ \E id \in RowIds, value \in PatchValues : WrapWriter_patch(id, value)
  \/ \E id \in RowIds, value \in FullValues : WrapWriter_replace(id, value)
  \/ \E id \in RowIds : WrapWriter_delete(id)
  \/ WrapReader_get_predicate
  \/ checkAuth_predicate
  \/ insert_rule
  \/ patch_db
  \/ replace_db
  \/ delete_db

Spec == Init /\ [][Next]_vars

(***************************************************************************)
(* A query handler under withQueryRLS.                                     *)
(***************************************************************************)
\* Tables a query can find: documents alice and bob posted in turn, published
\* or not, with the gaps deletes leave.
AuthorOf(i) == IF i % 2 = 1 THEN "alice" ELSE "bob"

QueryStores ==
  {st \in [Ids -> Docs \cup {Null}] :
     \A i \in Ids : st[i] = Null \/ (st[i].id = i /\ st[i].author = AuthorOf(i))}

InitQuery ==
  /\ ctx \in Contexts
  /\ identity \in Identities
  /\ readRule \in {NoRule} \cup RuleNames
  /\ writeRule = Omitted
  /\ insertRule = NoRule
  /\ store \in QueryStores
  /\ nextId = MaxDocs + 1
  /\ pc = "call"
  /\ op = NoOp
  /\ doc = Undefined
  /\ log = <<>>
  /\ out = NoOut
  /\ pre = store
  /\ wq = NoQuery
  /\ arr = <<>>
  /\ results = <<>>
  /\ iterator = NoIterator
  /\ cur = NoResult
  /\ acc = <<>>
  /\ inserted = Null
  /\ second = NoSecond

WrapReader_get_call(id) == WrapReader_get("get", id, NoValue)

NextQuery ==
  \/ withQueryRLS
  \/ \E id \in Ids : WrapReader_get_call(id)
  \/ WrapReader_get_predicate
  \/ WrapReader_query
  \/ fullTableScan
  \/ withIndex
  \/ withSearchIndex
  \/ WrapQuery_filter
  \/ \E o \in {"asc", "desc"} : WrapQuery_order(o)
  \/ collect
  \/ \E numItems \in 1..MaxPage, cursor \in 0..MaxDocs :
       paginate(numItems, cursor)
  \/ \E i \in Ids : asyncFilter_settle(i)
  \/ \E n \in 0..MaxTake : take(n)
  \/ first
  \/ unique
  \/ WrapQuery_asyncIterator
  \/ WrapQuery_next
  \/ WrapQuery_return
  \/ next_pull
  \/ next_predicate
  \/ take_loop
  \/ first_loop
  \/ unique_loop
  \/ next_loop

SpecQuery == InitQuery /\ [][NextQuery]_vars

(***************************************************************************)
(* A query handler that paginates a query to its end:                      *)
(*   do { r = await q.paginate({numItems, cursor});                        *)
(*        cursor = r.continueCursor } while (!r.isDone)                    *)
(***************************************************************************)
\* The queries a handler can build from db.query("messages").
QueryShapes ==
  {q \in [kind : {"initializer", "query"},
          src : {"fullTableScan", "withIndex", "withSearchIndex"},
          filtered : BOOLEAN, ord : {"asc", "desc"}, p : {"predicate"}] :
     /\ q.kind = "initializer" =>
          (q.src = "fullTableScan" /\ ~q.filtered /\ q.ord = "asc")
     /\ q.src = "withSearchIndex" => q.ord = "asc"}

InitPaginate ==
  /\ ctx = [db |-> rawDb]
  /\ identity \in Identities
  /\ readRule \in {NoRule} \cup RuleNames
  /\ writeRule = Omitted
  /\ insertRule = NoRule
  /\ store \in QueryStores
  /\ nextId = MaxDocs + 1
  /\ pc = "call"
  /\ op = NoOp
  /\ doc = Undefined
  /\ log = <<>>
  /\ out = NoOut
  /\ pre = store
  /\ wq \in QueryShapes
  /\ arr = <<>>
  /\ results = <<>>
  /\ iterator = NoIterator
  /\ cur = NoResult
  /\ acc = <<>>
  /\ inserted = Null
  /\ second = NoSecond

\* The next call of the loop: the first with a null cursor, the others with
\* the cursor of the page before, while the engine has more pages.
paginate_loop(numItems) ==
  /\ op.name = "paginate" => (~out.isDone /\ numItems = op.n)
  /\ paginate(numItems, IF op.name = "paginate" THEN out.continueCursor ELSE 0)

NextPaginate ==
  \/ withQueryRLS
  \/ \E numItems \in 1..MaxPage : paginate_loop(numItems)
  \/ \E i \in Ids : asyncFilter_settle(i)

\* The handler runs on: a promise that can resolve does, and the loop goes on
\* to its next call.
SpecPaginate == InitPaginate /\ [][NextPaginate]_vars /\ WF_vars(NextPaginate)

(***************************************************************************)
(* A mutation handler whose caller's identity may fail to resolve: it      *)
(* reads and writes through the WrapWriter, and queries through            *)
(* WrapWriter.query, which is the reader's.                                *)
(***************************************************************************)
InitFaulty ==
  /\ ctx = [db |-> rawDb]
  /\ identity \in Identities \cup {AuthFails}
  /\ readRule \in {NoRule} \cup RuleNames
  /\ writeRule \in {Omitted, NoRule, "messages.write"}
  /\ insertRule = NoRule
  /\ store \in InitStores
  /\ nextId = Used(store) + 1
  /\ pc = "call"
  /\ op = NoOp
  /\ doc = Undefined
  /\ log = <<>>
  /\ out = NoOut
  /\ pre = store
  /\ wq = NoQuery
  /\ arr = <<>>
  /\ results = <<>>
  /\ iterator = NoIterator
  /\ cur = NoResult
  /\ acc = <<>>
  /\ inserted = Null
  /\ second = NoSecond

\* query(tableName) of WrapWriter: this.reader.query(tableName).
WrapWriter_query == WrapReader_query

NextFaulty ==
  \/ withMutationRLS
  \/ \E id \in RowIds : WrapWriter_get(id)
  \/ \E id \in RowIds, value \in PatchValues : WrapWriter_patch(id, value)
  \/ \E id \in RowIds, value \in FullValues : WrapWriter_replace(id, value)
  \/ \E id \in RowIds : WrapWriter_delete(id)
  \/ WrapReader_get_predicate
  \/ checkAuth_predicate
  \/ patch_db
  \/ replace_db
  \/ delete_db
  \/ WrapWriter_query
  \/ collect
  \/ \E i \in Ids : asyncFilter_settle(i)
  \/ first
  \/ next_pull
  \/ next_predicate
  \/ first_loop

SpecFaulty == InitFaulty /\ [][NextFaulty]_vars

(***************************************************************************)
(* A mutation handler over an engine that gives no isolation: between two  *)
(* awaits of the handler's operation, another writer's db.replace of a     *)
(* document of the table takes effect (once per operation).                *)
(***************************************************************************)
InitRace ==
  /\ ctx = [db |-> rawDb]
  /\ identity \in Identities
  /\ readRule \in {NoRule} \cup RuleNames
  /\ writeRule \in {NoRule, "messages.write"}
  /\ insertRule = NoRule
  /\ store \in InitStores
  /\ nextId = Used(store) + 1
  /\ pc = "call"
  /\ op = NoOp
  /\ doc = Undefined
  /\ log = <<>>
  /\ out = NoOut
  /\ pre = store
  /\ wq = NoQuery
  /\ arr = <<>>
  /\ results = <<>>
  /\ iterator = NoIterator
  /\ cur = NoResult
  /\ acc = <<>>
  /\ inserted = Null
  /\ second = NoSecond

\* The other writer replaces the document the operation is about.
ConcurrentWriter(id, value) ==
  /\ pc \in {"read.predicate", "write.predicate", "db"}
  /\ id = op.id
  /\ store[id] # Null
  /\ \A k \in 1..Len(log) : log[k].ev # "concurrent.replace"
  /\ store' = db_replace(store, id, value)
  /\ store' # store
  /\ log' = Append(log, Event("concurrent.replace", id, store'[id], ""))
  /\ UNCHANGED <<config, nextId, pc, op, doc, out, pre, qvars>>

NextRace ==
  \/ withMutationRLS
  \/ \E id \in RowIds, value \in PatchValues : WrapWriter_patch(id, value)
  \/ \E id \in RowIds, value \in FullValues : WrapWriter_replace(id, value)
  \/ \E id \in RowIds : WrapWriter_delete(id)
  \/ WrapReader_get_predicate
  \/ checkAuth_predicate
  \/ patch_db
  \/ replace_db
  \/ delete_db
  \/ \E id \in RowIds, value \in FullValues : ConcurrentWriter(id, value)

SpecRace == InitRace /\ [][NextRace]_vars

(***************************************************************************)
(* A query handler that iterates one WrapQuery by hand and begins a second *)
(* iteration on it before the first is over.                               *)
(***************************************************************************)
InitShared ==
  /\ ctx = [db |-> rawDb]
  /\ identity \in Identities
  /\ readRule \in {NoRule} \cup RuleNames
  /\ writeRule = Omitted
  /\ insertRule = NoRule
  /\ store \in QueryStores
  /\ nextId = MaxDocs + 1
  /\ pc = "call"
  /\ op = NoOp
  /\ doc = Undefined
  /\ log = <<>>
  /\ out = NoOut
  /\ pre = store
  /\ wq \in QueryShapes
  /\ arr = <<>>
  /\ results = <<>>
  /\ iterator = NoIterator
  /\ cur = NoResult
  /\ acc = <<>>
  /\ inserted = Null
  /\ second = NoSecond

\* The handler takes the iterator of its WrapQuery once.
WrapQuery_asyncIterator_once ==
  /\ op = NoOp
  /\ WrapQuery_asyncIterator

NextShared ==
  \/ withQueryRLS
  \/ WrapQuery_asyncIterator_once
  \/ WrapQuery_asyncIterator_again
  \/ WrapQuery_next
  \/ WrapQuery_next_second
  \/ next_pull
  \/ next_predicate
  \/ next_loop
  \/ next_loop_second

SpecShared == InitShared /\ [][NextShared]_vars

(***************************************************************************)
(* Properties.                                                             *)
(***************************************************************************)
\* The read rule R of the table, for the caller: R(ctx, d) = false.
ReadDenied(d) == readRule # NoRule /\ Rule(readRule, identity, d) = "false"
ReadAccepts(d) == ~ReadDenied(d)

\* The write rule of the table denies the caller on d.
WriteDenied(d) ==
  writeRule \notin {NoRule, Omitted} /\ Rule(writeRule, identity, d) = "false"

Mutators == {"patch", "replace", "delete"}
MutationEvents == {"db.patch", "db.replace", "db.delete"}
Mutations(l) == {k \in 1..Len(l) : l[k].ev \in MutationEvents}
Calls(l, ev) == {k \in 1..Len(l) : l[k].ev = ev}

\* The documents the last call handed to the caller.
ReturnedDocs ==
  (IF out.kind \in {"value", "result"} /\ IsDoc(out.value)
   THEN {out.value} ELSE {})
  \cup {out.list[k] : k \in 1..Len(out.list)}

\* The documents of the handler's query that the read rule accepts, in the
\* engine's order.
AcceptedDocs == SelectSeq(q_collect(store, Target), ReadAccepts)

\* C1: a stored document that the table's read rule denies to the caller is
\* never returned by get, collect, paginate, take, first, unique or next,
\* whatever scan, filter and order built the query.
C1_DeniedNeverReturned ==
  \A i \in Ids :
    (store[i] # Null /\ ReadDenied(store[i])) => store[i] \notin ReturnedDocs

\* C1 happens: take returned two documents after pulling a denied one.
C1_Witness ==
  /\ pc = "idle"
  /\ op.name = "take"
  /\ wq.filtered
  /\ wq.ord = "desc"
  /\ out.kind = "list"
  /\ Len(out.list) = 2
  /\ \E k \in 1..iterator.pos : ReadDenied(iterator.items[k])

\* C2: patch, replace and delete of a missing document and of a document the
\* read rule denies both throw NotFoundOrForbidden; the engine's mutation is
\* never called and the table is unchanged.
C2_NotFoundOrForbidden ==
  (op.name \in Mutators /\ (pre[op.id] = Null \/ ReadDenied(pre[op.id]))) =>
    /\ store = pre
    /\ Mutations(log) = {}
    /\ pc \in {"idle", "read.predicate"}
    /\ pc = "idle" => out = Thrown(NotFoundOrForbidden)

\* C2 happens: delete of an existing, read-denied document was refused.
C2_Witness ==
  /\ pc = "idle"
  /\ op.name = "delete"
  /\ pre[op.id] # Null
  /\ ReadDenied(pre[op.id])
  /\ out = Thrown(NotFoundOrForbidden)

MessagesExample == readRule = "messages.read" /\ writeRule = "messages.write"

\* C3: patch, replace and delete of a readable document that the write rule
\* denies throw WriteForbidden, call no engine mutation and leave the table
\* unchanged; under the messages rules an authenticated caller's patch
\* succeeds exactly on the messages the caller authored.
C3_WriteForbidden ==
  /\ (op.name \in Mutators /\ pre[op.id] # Null /\ ReadAccepts(pre[op.id])
        /\ WriteDenied(pre[op.id])) =>
       /\ store = pre
       /\ Mutations(log) = {}
       /\ pc = "idle" => out = Thrown(WriteForbidden)
  /\ (MessagesExample /\ identity # NoIdentity /\ op.name = "patch"
        /\ pc = "idle") =>
       (out.kind = "void" <=>
          (pre[op.id] # Null /\ pre[op.id].author = identity))

\* C3 happens: alice's patch of bob's message was refused.
C3_Witness ==
  /\ MessagesExample
  /\ identity = "alice"
  /\ pc = "idle"
  /\ op.name = "patch"
  /\ pre[op.id] # Null
  /\ pre[op.id].author = "bob"
  /\ out = Thrown(WriteForbidden)

\* C4: patch, replace and delete first get the target (db.get, then the read
\* rule), then evaluate the write predicate on the document that get
\* returned, which is the stored document and not the proposed value, then
\* call the engine's mutation: the write predicate only after get returned a
\* document, the mutation only after the write predicate returned true, and
\* at most once.
C4_ReadCheckMutate ==
  op.name \in Mutators =>
    /\ Len(log) >= 1
    /\ log[1] = Event("db.get", op.id, pre[op.id], "")
    /\ Calls(log, "db.get") = {1}
    /\ \A k \in Calls(log, "read.rule") : k = 2 /\ log[k].doc = log[1].doc
    /\ \A k \in Calls(log, "write.predicate") :
         /\ log[1].doc # Null
         /\ readRule # NoRule => (2 \in Calls(log, "read.rule") /\ k > 2)
         /\ ReadAccepts(log[1].doc)
         /\ log[k].doc = log[1].doc
         /\ log[k].doc = pre[op.id]
    /\ \A k \in Calls(log, "write.rule") :
         /\ k - 1 \in Calls(log, "write.predicate")
         /\ log[k].doc = pre[op.id]
    /\ \A k \in Mutations(log) :
         /\ \E j \in Calls(log, "write.predicate") :
              j < k /\ log[j].res = "true"
         /\ k = Len(log)
         /\ log[k].id = op.id
    /\ Cardinality(Calls(log, "write.predicate")) <= 1
    /\ Cardinality(Mutations(log)) <= 1
    /\ store # pre => Mutations(log) # {}

\* C4 happens: a replace went through although the write rule denies the
\* caller on the value it wrote.
C4_Witness ==
  /\ pc = "idle"
  /\ op.name = "replace"
  /\ out.kind = "void"
  /\ Mutations(log) # {}
  /\ WriteDenied(store[op.id])

\* C5: on a table with no insert rule, insert calls db.insert at once and
\* returns the new id, whatever the read and write rules are and without
\* calling either; a later get of that id returns the inserted document when
\* the read rule accepts it and null when it does not.
C5_InsertUnrestricted ==
  /\ (insertRule = NoRule /\ op.name = "insert") =>
       /\ pc = "idle"
       /\ out.kind = "id"
       /\ pre[out.id] = Null
       /\ store = db_insert(pre, out.id, op.value)
       /\ inserted = store[out.id]
       /\ log = <<Event("db.insert", out.id, store[out.id], "")>>
  /\ (insertRule = NoRule /\ op.name = "get" /\ pc = "idle"
        /\ inserted # Null /\ op.id = inserted.id
        /\ store[op.id] = inserted) =>
       out = Returned("value",
                      IF ReadAccepts(inserted) THEN inserted ELSE Null)

\* C5 happens: under rules that deny the caller everything, the handler
\* inserted a document and its get of the new id returned null.
C5_Witness ==
  /\ identity = NoIdentity
  /\ readRule = "messages.write"
  /\ writeRule = "messages.write"
  /\ insertRule = NoRule
  /\ pc = "idle"
  /\ op.name = "get"
  /\ inserted # Null
  /\ op.id = inserted.id
  /\ store[op.id] = inserted
  /\ out = Returned("value", Null)

EngineNext ==
  IF iterator.done THEN [value |-> Undefined, done |-> TRUE]
  ELSE [value |-> iterator.items[iterator.pos], done |-> FALSE]

\* What the engine's unique() does on the handler's query.
EngineUnique ==
  LET all == q_collect(store, Target)
  IN IF Len(all) >= 2 THEN Thrown(NotUnique)
     ELSE Returned("value", IF all = <<>> THEN Null ELSE all[1])

\* C7: on a table with no read rule the wrapper's get, collect, paginate,
\* take, first, unique and next return exactly what the engine returns.
C7_NoRuleIsEngine ==
  (readRule = NoRule /\ pc = "idle") =>
    CASE op.name = "get" -> out = Returned("value", store[op.id])
      [] op.name = "collect" ->
           out.kind = "list" /\ out.list = q_collect(store, Target)
      [] op.name = "paginate" ->
           LET result == q_paginate(store, Target, op.n, op.cursor)
           IN /\ out.kind = "page"
              /\ out.list = result.page
              /\ out.isDone = result.isDone
              /\ out.continueCursor = result.continueCursor
      [] op.name = "take" ->
           out.kind = "list" /\ out.list = q_take(store, Target, op.n)
      [] op.name = "first" ->
           out = Returned("value", IF q_collect(store, Target) = <<>> THEN Null
                                   ELSE q_collect(store, Target)[1])
      [] op.name = "unique" -> out = EngineUnique
      [] op.name = "next" ->
           /\ out.kind = "result"
           /\ out.value = EngineNext.value
           /\ out.isDone = EngineNext.done
      [] OTHER -> out.kind # "error"

\* C7, the writes: with no write rule, or no write-rule map, patch, replace
\* and delete go through exactly when the target exists and the read rule
\* accepts it, and resolving the absent rule raises nothing.
C7_NoWriteRule ==
  (writeRule \in {NoRule, Omitted} /\ op.name \in Mutators /\ pc = "idle") =>
    IF pre[op.id] # Null /\ ReadAccepts(pre[op.id])
    THEN out.kind = "void" /\ Mutations(log) # {}
    ELSE out = Thrown(NotFoundOrForbidden)

\* C8: get returns null, and throws nothing, both when the document is
\* missing and when it exists and the read rule denies it; for a missing
\* document the read rule is not called.
C8_GetHidesExistence ==
  op.name = "get" =>
    /\ store[op.id] = Null =>
         /\ pc = "idle"
         /\ out = Returned("value", Null)
         /\ log = <<Event("db.get", op.id, Null, "")>>
    /\ (store[op.id] # Null /\ ReadDenied(store[op.id]) /\ pc = "idle") =>
         out = Returned("value", Null)

\* C8 happens: get of an existing, read-denied document returned null.
C8_Witness ==
  /\ op.name = "get"
  /\ pc = "idle"
  /\ store[op.id] # Null
  /\ ReadDenied(store[op.id])
  /\ Calls(log, "read.rule") # {}
  /\ out = Returned("value", Null)

\* C9: collect returns the documents of the engine's collect that the read
\* predicate accepts, each once and in the engine's order, in whatever order
\* the predicates settle.
C9_CollectOrderStable ==
  (op.name = "collect" /\ pc = "idle") =>
    /\ out.kind = "list"
    /\ arr = q_collect(store, Target)
    /\ out.list = SelectSeq(arr, ReadAccepts)

\* C9 happens: collect dropped a denied document from between two accepted
\* ones.
C9_Witness ==
  /\ op.name = "collect"
  /\ pc = "idle"
  /\ Len(arr) = 3
  /\ ReadAccepts(arr[1]) /\ ReadDenied(arr[2]) /\ ReadAccepts(arr[3])
  /\ out.list = <<arr[1], arr[3]>>

\* C10: for every n >= 0, take(n) returns at most n documents: the first
\* min(n, number of accepted documents) accepted documents, in order.
C10_TakeAtMostN ==
  (op.name = "take" /\ pc = "idle" /\ out.kind = "list") =>
    /\ Len(out.list) <= op.n
    /\ out.list = SubSeq(AcceptedDocs, 1, Min(op.n, Len(AcceptedDocs)))

\* C10 for n >= 1 only.
C10_TakeAtMostN_Positive ==
  (op.name = "take" /\ op.n >= 1) => C10_TakeAtMostN

\* The position, in the engine's order, of the k-th document of the handler's
\* query that the read rule accepts: 0 for k = 0 and when there is none.
AcceptedAt(k) ==
  LET all == q_collect(store, Target)
      at == {i \in 1..Len(all) :
               /\ ReadAccepts(all[i])
               /\ Cardinality({j \in 1..i : ReadAccepts(all[j])}) = k}
  IN IF at = {} THEN 0 ELSE CHOOSE i \in at : TRUE

\* How many accepted documents take(n) / first() are asked for.
Wanted == IF op.name = "first" THEN 1 ELSE op.n

Pulls == Cardinality(Calls(log, "iterator.next"))
Closes == Cardinality(Calls(log, "iterator.return"))

\* C11: take(n) and first() pull no element of the underlying cursor after
\* the one that produced the n-th (for first, the first) accepted document,
\* and when they stop before the underlying cursor reported completion they
\* call its return() exactly once (and never more than once).
C11_EarlyTermination ==
  (pc = "idle" /\ op.name \in {"take", "first"}) =>
    /\ Len(AcceptedDocs) >= Wanted => Pulls = AcceptedAt(Wanted)
    /\ Closes = (IF iterator.done THEN 0 ELSE 1)
    /\ iterator.returns = Closes

\* C11 for first() and for take(n) with n >= 1 only.
C11_EarlyTermination_Positive ==
  (op.name = "take" => op.n >= 1) => C11_EarlyTermination

\* The read predicate answers on the value of an exhausted cursor (undefined)
\* instead of throwing: there is no rule, or the rule does not read a field
\* of its document for this caller.
AnswersAtEnd == WrapReader_predicate(Undefined) # "throw"

\* C12: unique() returns null when no document of the query is accepted,
\* the document when exactly one is (after the underlying cursor reported
\* completion), and throws NotUnique when two or more are, wherever the
\* denied documents lie; it pulls nothing after the second accepted document.
C12_UniqueAccepted ==
  (pc = "idle" /\ op.name = "unique") =>
    CASE Len(AcceptedDocs) = 0 ->
           out = Returned("value", Null) /\ iterator.done
      [] Len(AcceptedDocs) = 1 ->
           out = Returned("value", AcceptedDocs[1]) /\ iterator.done
      [] OTHER ->
           out = Thrown(NotUnique) /\ Pulls = AcceptedAt(2)

\* C12 for the callers and rules whose predicate answers at the end of the
\* stream.
C12_UniqueAccepted_AnswersAtEnd == AnswersAtEnd => C12_UniqueAccepted

\* C13: paginate(options) calls the engine's paginate once, with the
\* caller's options, and returns the engine's result with only the page
\* replaced by the accepted documents of that page, in order: isDone and
\* continueCursor are the engine's, and the page is never padded.
C13_PaginateFiltersPage ==
  (op.name = "paginate" /\ pc \in {"asyncFilter", "idle"}) =>
    LET result == q_paginate(store, Target, op.n, op.cursor)
    IN /\ Cardinality(Calls(log, "q.paginate")) = 1
       /\ log[1].ev = "q.paginate"
       /\ arr = result.page
       /\ pc = "idle" =>
            /\ out.kind = "page"
            /\ out.list = SelectSeq(result.page, ReadAccepts)
            /\ Len(out.list) <= Len(result.page)
            /\ out.isDone = result.isDone
            /\ out.continueCursor = result.continueCursor

\* C13 happens: of a page of two documents one was dropped and the page was
\* returned with one document, though a later document would have been
\* accepted, with the engine's cursor.
C13_Witness ==
  /\ op.name = "paginate"
  /\ pc = "idle"
  /\ op.n = 2
  /\ Len(arr) = 2
  /\ Len(out.list) = 1
  /\ Len(AcceptedDocs) = 2
  /\ ~out.isDone
  /\ out.continueCursor = op.cursor + 2

\* The pagination is over: the engine reported that no page follows.
PaginateDone ==
  pc = "idle" /\ op.name = "paginate" /\ out.kind = "page" /\ out.isDone

\* C14: paginating with the returned continuation cursors until the engine
\* reports the end terminates, and the pages, concatenated, are the accepted
\* documents of the query, each once and in the engine's order.
C14_PaginateAll ==
  /\ <>PaginateDone
  /\ [](PaginateDone => acc \o out.list = AcceptedDocs)

\* C14 happens: a pagination by pages of one document, whose first page was
\* empty after filtering, ended with all the accepted documents.
C14_Witness ==
  /\ PaginateDone
  /\ op.n = 1
  /\ Len(q_collect(store, Target)) = 3
  /\ ReadDenied(q_collect(store, Target)[1])
  /\ Len(AcceptedDocs) = 2
  /\ acc \o out.list = AcceptedDocs

RuleEvents == {"read.rule", "write.rule", "insert.rule"}

\* C15: every rule invocation, of the read rule or the write rule and from
\* any operation, is given the ambient context, whose db is the engine's own
\* handle and never the wrapper the handler holds; hence a rule's reads reach
\* no rule, and an operation on one document evaluates each rule at most once.
C15_RulesGetRawDb ==
  /\ \A k \in 1..Len(log) :
       log[k].ev \in RuleEvents =>
         (log[k].ctx = ctx.db /\ log[k].ctx = rawDb /\ log[k].ctx # wrappedDb)
  /\ \A ev \in RuleEvents : Cardinality(Calls(log, ev)) <= 1

\* C15 happens: a patch went through after the read rule and the write rule
\* were both evaluated.
C15_Witness ==
  /\ pc = "idle"
  /\ op.name = "patch"
  /\ out.kind = "void"
  /\ Calls(log, "read.rule") # {}
  /\ Calls(log, "write.rule") # {}

\* C16: when the ambient context has no db, the wrapped function throws the
\* configuration error before the handler is called: no operation of the
\* handler starts, no read, rule evaluation or write takes place.
C16_NoDbFails ==
  ctx.db = noDb =>
    /\ pc \in {"call", "failed"}
    /\ op = NoOp
    /\ log = <<>>
    /\ store = pre
    /\ out = (IF pc = "failed" THEN Thrown(ConfigurationError) ELSE NoOut)

\* C16 happens: the wrapped mutation was called with a context without db
\* and threw.
C16_Witness ==
  /\ ctx.db = noDb
  /\ pc = "failed"
  /\ out = Thrown(ConfigurationError)
  /\ log = <<>>

Streaming == {"take", "first", "unique", "next"}

\* C17: during iteration the read rule is evaluated only on documents the
\* underlying cursor produced, never on the value that comes with its
\* completion, and so next(), take, first and unique never fail with the
\* error of a rule that reads a field of its document.
C17_NoRuleAtEnd ==
  op.name \in Streaming =>
    /\ \A k \in 1..Len(log) : log[k].ev = "read.rule" => IsDoc(log[k].doc)
    /\ out # Thrown(RuleError)

\* s is the start of t.
IsPrefix(s, t) == Len(s) <= Len(t) /\ s = SubSeq(t, 1, Len(s))

\* Within one next(): every rule call is on the element pulled just before
\* it, and with a rule every pull is followed by its rule call before the
\* next pull.
Sequential ==
  \A k \in 1..Len(log) :
    /\ log[k].ev = "read.rule" =>
         (k > 1 /\ log[k - 1].ev = "iterator.next"
                /\ log[k - 1].doc = log[k].doc)
    /\ (log[k].ev = "iterator.next" /\ k < Len(log) /\ readRule # NoRule) =>
         log[k + 1].ev = "read.rule"

\* C18: the handler's next() calls, up to completion, yield the accepted
\* documents of the underlying cursor in its order, the list collect()
\* returns on the query: denied documents are skipped and do not end the
\* stream, completion is reported, once the underlying cursor reported it,
\* and predicates are evaluated one at a time between pulls.
C18_NextYieldsAccepted ==
  op.name = "next" =>
    /\ Sequential
    /\ pc = "iterating" =>
         (~out.isDone /\ acc # <<>> /\ out.value = acc[Len(acc)]
                      /\ IsPrefix(acc, AcceptedDocs))
    /\ pc = "idle" =>
         (out.kind = "result" /\ out.isDone /\ iterator.done
                              /\ acc = AcceptedDocs)

\* C18 for the callers and rules whose predicate answers at the end of the
\* stream.
C18_NextYieldsAccepted_AnswersAtEnd == AnswersAtEnd => C18_NextYieldsAccepted

\* A step of return() called by the handler.
ReturnCalled ==
  op'.name = "return" /\ <<op, out, iterator>>' # <<op, out, iterator>>

\* C19: every return() of the handler, before the first next(), between two,
\* after the end, and after an earlier return(), calls the underlying
\* cursor's return() and resolves without an error.
C19_ReturnAnyTime ==
  [][ReturnCalled =>
       /\ iterator'.returns = iterator.returns + 1
       /\ ~iterator'.open
       /\ log' = <<Event("iterator.return", 0, Undefined, "")>>
       /\ out' = Returned("void", Undefined)]_vars

\* C19 happens: return() was called a second time on a cursor that had
\* reported completion.
C19_Witness ==
  /\ op.name = "return"
  /\ iterator.done
  /\ iterator.returns = 2
  /\ out = Returned("void", Undefined)

\* What a loop over the WrapQuery that stops at the first accepted document
\* does: the document it finds, how many elements it pulls, whether it closes
\* the underlying cursor, and whether it fails at the end of the stream.
StopAtFirst ==
  LET found == AcceptedDocs # <<>>
  IN [found |-> found,
      value |-> IF found THEN AcceptedDocs[1] ELSE Null,
      pulls |-> IF found THEN AcceptedAt(1)
                ELSE Len(q_collect(store, Target)) + 1,
      closes |-> IF found THEN 1 ELSE 0,
      fails |-> ~found /\ ~AnswersAtEnd]

\* C20: first() does what take(1) does: both pull the same elements and
\* close the underlying cursor in the same cases, both fail in the same
\* cases, and first() returns the element of take(1)'s list, or null when
\* the list is empty.
C20_FirstIsTakeOne ==
  (pc = "idle" /\ (op.name = "first" \/ (op.name = "take" /\ op.n = 1))) =>
    /\ Pulls = StopAtFirst.pulls
    /\ Closes = StopAtFirst.closes
    /\ iterator.returns = StopAtFirst.closes
    /\ IF StopAtFirst.fails THEN out = Thrown(RuleError)
       ELSE IF op.name = "first"
       THEN out = Returned("value", StopAtFirst.value)
       ELSE /\ out.kind = "list"
            /\ out.list = (IF StopAtFirst.found THEN <<StopAtFirst.value>>
                           ELSE <<>>)

\* C20 happens: first() returned the second element of the cursor, after a
\* denied one, and closed the cursor, with an element left.
C20_Witness ==
  /\ pc = "idle"
  /\ op.name = "first"
  /\ Len(q_collect(store, Target)) = 3
  /\ out = Returned("value", q_collect(store, Target)[2])
  /\ Pulls = 2
  /\ iterator.returns = 1

ShapeOps ==
  {"query", "fullTableScan", "withIndex", "withSearchIndex", "filter", "order"}

\* The rule invocations of the call in progress on document d.
RuleCallsOn(d) == {k \in 1..Len(log) : log[k].ev = "read.rule" /\ log[k].doc = d}

\* C21: query, fullTableScan, withIndex, withSearchIndex, filter and order
\* call no rule and pull no document; the WrapQuery they return carries the
\* reader's predicate; and so collect, paginate and the iterations call the
\* rule exactly once for each document the engine hands over.
C21_ShapingIsPure ==
  /\ op.name \in ShapeOps =>
       /\ pc = "idle"
       /\ out = Returned("query", Undefined)
       /\ log = <<>>
       /\ arr = <<>>
       /\ iterator = NoIterator
  /\ wq.kind # "none" => wq.p = "predicate"
  /\ (readRule # NoRule /\ op.name \in {"collect", "paginate"}) =>
       \A i \in 1..Len(arr) : Cardinality(RuleCallsOn(arr[i])) = 1
  /\ (readRule # NoRule /\ op.name \in Streaming /\ pc # "next.predicate") =>
       \A k \in 1..Len(log) :
         (log[k].ev = "iterator.next" /\ IsDoc(log[k].doc)) =>
           Cardinality(RuleCallsOn(log[k].doc)) = 1

\* C21 happens: collect on an index scan that was filtered and ordered called
\* the rule once for each of the two documents of the engine.
C21_Witness ==
  /\ op.name = "collect"
  /\ pc = "idle"
  /\ wq.filtered
  /\ wq.ord = "desc"
  /\ Len(arr) = 2
  /\ Cardinality(Calls(log, "read.rule")) = 2

\* The rule invocations of the call in progress that failed.
Failures == {k \in 1..Len(log) : log[k].ev \in RuleEvents /\ log[k].res = "throw"}

\* C22: when a rule fails (by itself, or because the engine failed under
\* it), the operation in progress fails with that very error: it returns no
\* document and no decision, the engine is not asked to mutate and the table
\* is untouched; get, patch, replace, delete and the iterations call nothing
\* after the failure (no retry).
C22_ErrorsPropagate ==
  Failures # {} =>
    /\ Mutations(log) = {}
    /\ store = pre
    /\ pc \in {"idle", "asyncFilter"}
    /\ pc = "idle" => out = Thrown(Raised)
    /\ op.name # "collect" => Failures = {Len(log)}

\* C22 happens: a patch of a document the handler may read failed with the
\* engine's error, raised under the write rule, and nothing was written.
C22_Witness ==
  /\ identity = AuthFails
  /\ pc = "idle"
  /\ op.name = "patch"
  /\ pre[op.id] # Null
  /\ Calls(log, "write.rule") # {}
  /\ out = Thrown(AuthError)
  /\ store = pre

\* What the engine makes of the table when the operation in progress is
\* delegated.
Delegated ==
  CASE op.name = "patch" -> db_patch(store, op.id, op.value)
    [] op.name = "replace" -> db_replace(store, op.id, op.value)
    [] op.name = "delete" -> db_delete(store, op.id)
    [] OTHER -> store

\* C23: once checkAuth has returned, patch, replace and delete delegate to
\* the engine without looking at the document again: the mutation is applied
\* to the table as it is at that moment, whatever another writer made of the
\* target since the rules accepted it.
C23_CheckThenMutate ==
  [][(pc = "db" /\ pc' # "db") =>
       (store' = Delegated /\ out' = Returned("void", Undefined))]_vars

\* C23 happens: alice's patch went through on a message that, after the
\* write rule had accepted it and before db.patch, another writer had given
\* to bob, and that the write rule denies her as it is.
C23_Witness ==
  /\ writeRule = "messages.write"
  /\ identity = "alice"
  /\ pc = "idle"
  /\ op.name = "patch"
  /\ out = Returned("void", Undefined)
  /\ \E k \in 2..(Len(log) - 1) :
       /\ log[k - 1].ev = "write.rule"
       /\ log[k - 1].res = "true"
       /\ log[k].ev = "concurrent.replace"
       /\ log[k].id = op.id
       /\ WriteDenied(log[k].doc)
       /\ log[k + 1].ev = "db.patch"
       /\ WriteDenied(log[k + 1].doc)

\* The first iteration was told the end: the handler's iterations are over.
FirstEnded ==
  pc = "idle" /\ op.name = "next" /\ out.kind = "result" /\ out.isDone

\* C24: a second iteration begun on the WrapQuery while the first is in
\* progress leaves both alone: what each was given is a start of the accepted
\* documents of the query, all of them once it was told the end; and the
\* underlying cursor of the first, like every cursor opened, is exhausted or
\* closed when the iterations are over.
C24_IterationsIndependent ==
  /\ IsPrefix(acc, AcceptedDocs)
  /\ IsPrefix(second.acc, AcceptedDocs)
  /\ FirstEnded => acc = AcceptedDocs
  /\ second.done => second.acc = AcceptedDocs
  /\ (FirstEnded /\ second.started) =>
       (second.first.done \/ second.first.returns > 0)

\* ---------------------------------------------------------------------------
\* Two sources that differ in denied documents only
\* ---------------------------------------------------------------------------

\* The two sources hold the same document wherever either holds a document
\* that the read rule accepts for the caller.
DifferOnlyInDenied(st1, st2) ==
  \A i \in Ids :
    st1[i] # st2[i] => /\ st1[i] = Null \/ ReadDenied(st1[i])
                       /\ st2[i] = Null \/ ReadDenied(st2[i])

\* The accepted documents of the handler's query over the source st.
AcceptedIn(st) == SelectSeq(q_collect(st, Target), ReadAccepts)

\* What the handler's operation gives the caller over the source st, as far
\* as it has come: the list of collect and take, the document of first and
\* unique, NotUnique, the documents next() has yielded and its completion,
\* and the failure of the predicate at the end of the stream.
ObservableOn(st) ==
  LET A == AcceptedIn(st)
      n == IF op.name = "first" \/ op.n < 1 THEN 1 ELSE op.n
      atEnd == IF AnswersAtEnd THEN "answers" ELSE "throws"
  IN CASE op.name = "collect" -> pc = "idle" => out.kind = "list" /\ out.list = A
       [] op.name = "take" ->
            pc = "idle" =>
              IF Len(A) >= n
              THEN out.kind = "list" /\ out.list = SubSeq(A, 1, n)
              ELSE IF atEnd = "answers"
                   THEN out.kind = "list" /\ out.list = A
                   ELSE out = Thrown(Raised)
       [] op.name = "first" ->
            pc = "idle" =>
              IF A # <<>> THEN out = Returned("value", A[1])
              ELSE IF atEnd = "answers" THEN out = Returned("value", Null)
              ELSE out = Thrown(Raised)
       [] op.name = "unique" ->
            pc = "idle" =>
              IF Len(A) >= 2 THEN out = Thrown(NotUnique)
              ELSE IF atEnd = "throws" THEN out = Thrown(Raised)
              ELSE out = Returned("value", IF A = <<>> THEN Null ELSE A[1])
       [] op.name = "next" ->
            /\ pc = "iterating" =>
                 /\ out.kind = "result" /\ ~out.isDone
                 /\ acc # <<>> /\ out.value = acc[Len(acc)]
                 /\ IsPrefix(acc, A)
            /\ pc = "idle" =>
                 /\ acc = A
                 /\ IF atEnd = "throws" THEN out = Thrown(Raised)
                    ELSE /\ out.kind = "result" /\ out.isDone
                         /\ out.value = IF WrapReader_predicate(Undefined) = "true"
                                        THEN Undefined ELSE Null
       [] OTHER -> TRUE

\* C25: for a fixed caller and rules, collect, take(n), first, unique and
\* manual iteration give over the handler's source what they give over every
\* source that differs from it only in documents the read rule denies: the
\* same documents in the same order, the same NotUnique outcome, the same
\* completion.
C25_DeniedInfluenceNothing ==
  \A st \in QueryStores : DifferOnlyInDenied(store, st) => ObservableOn(st)

\* C25 happens: first() returned the one accepted document of a source that
\* holds two denied documents before it, where a source without them and a
\* source with one of them are among those compared.
C25_Witness ==
  /\ op.name = "first"
  /\ pc = "idle"
  /\ LET all == q_collect(store, Target)
     IN /\ Len(all) = 3
        /\ ReadDenied(all[1]) /\ ReadDenied(all[2]) /\ ReadAccepts(all[3])
        /\ out = Returned("value", all[3])
  /\ \E s1, s2 \in QueryStores :
       /\ DifferOnlyInDenied(store, s1) /\ DifferOnlyInDenied(store, s2)
       /\ Len(q_collect(s1, Target)) = 1
       /\ Len(q_collect(s2, Target)) = 2

====
